---- MODULE Spec2Model ----
(***************************************************************************)
(* A11Y-scanner: the scan orchestrator (scanWithAxe), the POST /api/scan   *)
(* route handler, the client form (runScan, the violation filter) and the  *)
(* theme toggle.                                                           *)
(*                                                                         *)
(* Representation.  A JavaScript string is a sequence of text pieces;      *)
(* wherever the code inspects characters (trim, the scheme test,           *)
(* toLowerCase, includes) the pieces are single characters.  An optional   *)
(* value (a `?:` field, a possibly undefined variable) is a sequence of    *)
(* length 0 (undefined) or 1 (the value).                                  *)
(***************************************************************************)
EXTENDS Integers, Sequences, FiniteSets, TLC

VARIABLES
    pc,          \* per call: position inside POST / scanWithAxe
    entry,       \* per call: "none", "scan" (scanWithAxe called directly) or "post"
    request,     \* per call: what the call was made with (undefined before it)
    targetUrl,   \* per call: scanWithAxe's const targetUrl
    browser,     \* per call: scanWithAxe's local `browser` (undefined = null)
    pending,     \* per call: completion recorded by try/catch before finally runs
    outcome,     \* per call: how scanWithAxe completed (returned value / rejection)
    http,        \* per call: the HTTP responses POST has produced
    scans,       \* per call: how many times POST invoked scanWithAxe
    browsers,    \* the browser instances of the automation library
    nInput,      \* normalizeUrl probe: the input string
    nOutput,     \* normalizeUrl probe: the result (undefined before the call)
    sInput,      \* toScanResponse probe: the raw engine result
    sOutput,     \* toScanResponse probe: the response (undefined before the call)
    data,        \* ScanForm state: fetched ScanResponse (undefined = null)
    query,       \* ScanForm state: free-text filter
    minImpact,   \* ScanForm state: minimum-impact filter
    nResponse,   \* normalizeUrl probe: a response scanWithAxe reports for nOutput
    nAgain,      \* normalizeUrl probe: normalizeUrl of the reported url field
    formUrl,     \* ScanForm state `url`: the text of the URL input
    loading,     \* ScanForm state: a scan is running
    error,       \* ScanForm state: error message (undefined = null)
    inflight,    \* ScanForm: runScan invocations suspended at an await
    fetched,     \* ScanForm: what the last settled fetch delivered
    theme,       \* ThemeToggle state
    mounted,     \* ThemeToggle state
    datasetTheme,\* document.documentElement.dataset.theme
    stored,      \* localStorage item "theme" (undefined = null)
    prefersLight,\* matchMedia("(prefers-color-scheme: light)").matches
    themes,      \* ThemeToggle: the theme after mounting and after each toggle
    writes       \* number of localStorage.setItem calls

scanVars == <<pc, entry, request, targetUrl, browser, pending, outcome, http, scans, browsers>>
normVars == <<nInput, nOutput, nResponse, nAgain>>
shapeVars == <<sInput, sOutput>>
formVars == <<data, query, minImpact>>
runVars == <<formUrl, loading, error, inflight, fetched>>
themeVars == <<theme, mounted, datasetTheme, stored, prefersLight, themes, writes>>
vars == <<scanVars, normVars, shapeVars, formVars, runVars, themeVars>>

----------------------------------------------------------------------------
(* Bounds *)

NumCalls == 2       \* concurrent calls (direct scanWithAxe calls or POST requests)
MaxPad == 1         \* whitespace characters around a normalizeUrl input
MaxViolations == 2  \* length of the raw violation lists fed to the shaper
MaxShown == 2       \* length of the violation lists the form receives
MaxQuery == 2       \* length of the form's search text
MaxFlights == 2     \* runScan invocations in flight at once
MaxToggles == 8     \* clicks on the theme toggle

Calls == 1..NumCalls

----------------------------------------------------------------------------
(* Optional values and strings *)

Undefined == <<>>
Def(v) == <<v>>
IsDef(o) == o # Undefined
Val(o) == o[1]

\* a ?? b
Coalesce(o, b) == IF IsDef(o) THEN Val(o) ELSE b

UpperAlpha == <<"A","B","C","D","E","F","G","H","I","J","K","L","M",
                "N","O","P","Q","R","S","T","U","V","W","X","Y","Z">>
LowerAlpha == <<"a","b","c","d","e","f","g","h","i","j","k","l","m",
                "n","o","p","q","r","s","t","u","v","w","x","y","z">>

ToLowerChar(c) ==
    IF \E i \in 1..Len(UpperAlpha) : UpperAlpha[i] = c
    THEN LowerAlpha[CHOOSE i \in 1..Len(UpperAlpha) : UpperAlpha[i] = c]
    ELSE c

\* String.prototype.toLowerCase
ToLowerCase(s) == [i \in 1..Len(s) |-> ToLowerChar(s[i])]

WhiteSpace == {" ", "\t", "\n"}

RECURSIVE TrimStart(_)
TrimStart(s) ==
    IF s # <<>> /\ Head(s) \in WhiteSpace THEN TrimStart(Tail(s)) ELSE s

RECURSIVE TrimEnd(_)
TrimEnd(s) ==
    IF s # <<>> /\ s[Len(s)] \in WhiteSpace
    THEN TrimEnd(SubSeq(s, 1, Len(s) - 1))
    ELSE s

\* String.prototype.trim
Trim(s) == TrimEnd(TrimStart(s))

\* String.prototype.includes
Includes(s, q) ==
    \E i \in 0..(Len(s) - Len(q)) : SubSeq(s, i + 1, i + Len(q)) = q

----------------------------------------------------------------------------
(* normalizeUrl *)

\* The pattern of /^https?:\/\//i : each element is a character and whether
\* it is optional (the `?` quantifier).
SchemePattern ==
    << [ch |-> "h", opt |-> FALSE], [ch |-> "t", opt |-> FALSE],
       [ch |-> "t", opt |-> FALSE], [ch |-> "p", opt |-> FALSE],
       [ch |-> "s", opt |-> TRUE],  [ch |-> ":", opt |-> FALSE],
       [ch |-> "/", opt |-> FALSE], [ch |-> "/", opt |-> FALSE] >>

\* Anchored (^), case-insensitive (i) match of a pattern against a prefix of s.
RECURSIVE MatchPrefix(_, _)
MatchPrefix(pat, s) ==
    IF pat = <<>> THEN TRUE
    ELSE LET e == Head(pat)
             here == /\ s # <<>>
                     /\ ToLowerChar(Head(s)) = e.ch
                     /\ MatchPrefix(Tail(pat), Tail(s))
         IN  IF e.opt THEN here \/ MatchPrefix(Tail(pat), s) ELSE here

SchemeTest(s) == MatchPrefix(SchemePattern, s)

\* Mutant: the prefix written with one slash.
HttpsPrefixOneSlash == <<"h","t","t","p","s",":","/">>

HttpsPrefix == <<"h","t","t","p","s",":","/","/">>

\* Mutant: the scheme test applied to the untrimmed input.
normalizeUrlTestsRawInput(input) ==
    IF ~SchemeTest(input) THEN HttpsPrefix \o Trim(input) ELSE Trim(input)

normalizeUrl(input) ==
    LET trimmed == Trim(input)
    IN  IF ~SchemeTest(trimmed) THEN HttpsPrefix \o trimmed ELSE trimmed

----------------------------------------------------------------------------
(* toScanResponse *)

\* new Date().toISOString(): the wall clock is not modelled, every reading
\* yields the same ISO string.
NowISO == <<"2026-01-01T00:00:00.000Z">>

ShapeNode(n) ==
    [html |-> n.html, target |-> n.target, failureSummary |-> n.failureSummary]

ShapeNodes(ns) == [i \in 1..Len(ns) |-> ShapeNode(ns[i])]

ShapeViolation(v) ==
    [id |-> v.id,
     impact |-> v.impact,
     description |-> v.description,
     help |-> v.help,
     helpUrl |-> v.helpUrl,
     tags |-> Def(Coalesce(v.tags, <<>>)),
     nodes |-> Def(ShapeNodes(Coalesce(v.nodes, <<>>)))]

\* Mutant: violations that report no nodes are left out.
ShapeViolationsWithNodes(vs) ==
    LET kept == SelectSeq(vs, LAMBDA v : IsDef(v.nodes))
    IN  [i \in 1..Len(kept) |-> ShapeViolation(kept[i])]

ShapeViolations(vs) == [i \in 1..Len(vs) |-> ShapeViolation(vs[i])]

toScanResponse(url, result) ==
    [ok |-> TRUE,
     url |-> Def(url),
     timestamp |-> Def(NowISO),
     violations |-> ShapeViolations(Coalesce(result.violations, <<>>)),
     error |-> Undefined]

----------------------------------------------------------------------------
(* Values the environment supplies *)

\* JavaScript values the parsed request body can hold under `url`.
JsUndefined == [type |-> "undefined", num |-> 0, str |-> <<>>]
JsNull == [type |-> "null", num |-> 0, str |-> <<>>]
JsNumber(n) == [type |-> "number", num |-> n, str |-> <<>>]
JsBoolean(b) == [type |-> "boolean", num |-> IF b THEN 1 ELSE 0, str |-> <<>>]
JsObject == [type |-> "object", num |-> 0, str |-> <<>>]
JsString(s) == [type |-> "string", num |-> 0, str |-> s]

\* ToBoolean
Truthy(v) ==
    CASE v.type \in {"undefined", "null"} -> FALSE
      [] v.type \in {"number", "boolean"} -> v.num # 0
      [] v.type = "string" -> v.str # <<>>
      [] OTHER -> TRUE

\* typeof
TypeOf(v) == IF v.type = "null" THEN "object" ELSE v.type

UrlValues ==
    { JsUndefined, JsNull, JsNumber(0), JsNumber(7), JsObject,
      JsString(<<>>), JsString(<<" ">>), JsString(<<"a",".","b">>) }

\* Request bodies: text that is not JSON, the JSON value null, and JSON values
\* whose `url` property reads as one of UrlValues (undefined also stands for a
\* body without the property and for a primitive body).
Bodies ==
    { [json |-> "invalid", url |-> JsUndefined], [json |-> "null", url |-> JsUndefined] }
    \cup { [json |-> "value", url |-> u] : u \in UrlValues }

\* What a direct call scanWithAxe(url) was made with, in the shape of a body.
Direct(url) == [json |-> "direct", url |-> JsString(url)]

\* Strings scanWithAxe is called with directly.
ScanInputs == { <<" ","H","T","T","P",":","/","/","a"," ">> }

\* Thrown values.  `catch (e: any)` receives whatever was thrown: a value
\* without a message (a non-Error), an Error with an empty message, an Error
\* with a message.
NonError == [message |-> Undefined, stack |-> Undefined]
EmptyError == [message |-> Def(<<>>), stack |-> Def(<<"Error\n    at <anonymous>">>)]
DnsError ==
    [message |-> Def(<<"page.goto: net::ERR_NAME_NOT_RESOLVED">>),
     stack |-> Def(<<"Error: page.goto: net::ERR_NAME_NOT_RESOLVED\n    at <anonymous>">>)]
SyntaxError ==
    [message |-> Def(<<"Unexpected token < in JSON at position 0">>),
     stack |-> Def(<<"SyntaxError: Unexpected token < in JSON at position 0\n    at JSON.parse">>)]
DestructureError ==
    [message |-> Def(<<"Cannot destructure property 'url' of null">>),
     stack |-> Def(<<"TypeError: Cannot destructure property 'url' of null\n    at POST">>)]
NullResultError ==
    [message |-> Def(<<"Cannot read properties of null (reading 'violations')">>),
     stack |-> Def(<<"TypeError: Cannot read properties of null\n    at toScanResponse">>)]

\* The message text plays no part in the code; one Error with a message (the
\* one navigation to an unresolvable host rejects with) stands for them all.
Throws(stage) == {NonError, EmptyError, DnsError}

\* One raw violation as the engine reports it, with every optional part missing.
BareViolation ==
    [id |-> <<"i","m","a","g","e","-","a","l","t">>,
     impact |-> Undefined,
     description |-> <<"Ensures <img> elements have alternate text">>,
     help |-> <<"Images must have alternate text">>,
     helpUrl |-> Undefined,
     tags |-> Undefined,
     nodes |-> Undefined]

\* What page.evaluate resolves to: nothing (null), or an engine result.
AxeResults ==
    { Undefined,
      Def([violations |-> Undefined]),
      Def([violations |-> Def(<<>>)]),
      Def([violations |-> Def(<<BareViolation>>)]) }

----------------------------------------------------------------------------
(* scanWithAxe *)

ScanFailed == <<"Scan failed">>

\* catch (e) { return {ok: false, ...} }
CatchResponse(url, e) ==
    [ok |-> FALSE,
     url |-> Def(url),
     timestamp |-> Def(NowISO),
     violations |-> <<>>,
     error |-> Def(Coalesce(e.message, ScanFailed))]

NoOutcome == [kind |-> "none", value |-> Undefined, error |-> Undefined]
Returned(resp) == [kind |-> "returned", value |-> Def(resp), error |-> Undefined]
Rejected(e) == [kind |-> "rejected", value |-> Undefined, error |-> Def(e)]

\* An instance of the library: whether it runs, how often it was launched and
\* had close() called, and which calls launched it, operated on it, closed it.
NoBrowser ==
    [state |-> "none", launches |-> 0, closeCalls |-> 0,
     launchers |-> {}, users |-> {}, closers |-> {}]

\* Mutant: a module-level browser kept across calls, reused while it runs.
ReusedInstance(p) ==
    IF \E b \in Calls : browsers[b].state = "open"
    THEN CHOOSE b \in Calls : browsers[b].state = "open"
    ELSE p

\* The instance chromium.launch() creates for call p: a new one on every launch.
LaunchedInstance(p) == p

\* finally { if (browser) await browser.close(); }
MustClose(p) == IsDef(browser[p])

\* Where a call goes once scanWithAxe has completed.
AfterScan(p) == IF entry[p] = "post" THEN "resume" ELSE "done"

\* The instance is operated on by call p (newContext, newPage, ... run on it).
Use(p) ==
    LET b == Val(browser[p])
    IN  browsers' = [browsers EXCEPT ![b].users = @ \cup {p}]

\* try/catch has produced `resp`; the finally block runs next.
Finally(p, resp) ==
    IF MustClose(p)
    THEN /\ pc' = [pc EXCEPT ![p] = "close"]
         /\ pending' = [pending EXCEPT ![p] = Def(resp)]
         /\ UNCHANGED outcome
    ELSE /\ pc' = [pc EXCEPT ![p] = AfterScan(p)]
         /\ outcome' = [outcome EXCEPT ![p] = Returned(resp)]
         /\ UNCHANGED pending

\* An awaited library call of the try block: it resolves and the call moves
\* to the next stage, or it rejects with e and the catch block answers.
LibraryStage(p, stage, next) ==
    /\ pc[p] = stage
    /\ Use(p)
    /\ \/ /\ pc' = [pc EXCEPT ![p] = next]
          /\ UNCHANGED <<pending, outcome>>
       \/ \E e \in Throws(stage) : Finally(p, CatchResponse(targetUrl[p], e))
    /\ UNCHANGED <<entry, request, targetUrl, browser, http, scans, normVars, shapeVars, formVars, runVars, themeVars>>

\* scanWithAxe(url) is entered: targetUrl = normalizeUrl(url); browser = null.
Enter(p, url, how) ==
    /\ entry' = [entry EXCEPT ![p] = how]
    /\ targetUrl' = [targetUrl EXCEPT ![p] = normalizeUrl(url)]
    /\ browser' = [browser EXCEPT ![p] = Undefined]
    /\ pc' = [pc EXCEPT ![p] = "launch"]

\* A direct call scanWithAxe(url).
Call(p) ==
    /\ pc[p] = "idle"
    /\ \E url \in ScanInputs :
         /\ Enter(p, url, "scan")
         /\ request' = [request EXCEPT ![p] = Def(Direct(url))]
    /\ UNCHANGED <<pending, outcome, http, scans, browsers, normVars, shapeVars, formVars, runVars, themeVars>>

\* browser = await chromium.launch(...)
Launch(p) ==
    /\ pc[p] = "launch"
    /\ \/ LET b == LaunchedInstance(p)
          IN  /\ browser' = [browser EXCEPT ![p] = Def(b)]
              /\ browsers' = [browsers EXCEPT ![b].state = "open",
                                              ![b].launches = @ + 1,
                                              ![b].launchers = @ \cup {p}]
              /\ pc' = [pc EXCEPT ![p] = "newContext"]
              /\ UNCHANGED <<pending, outcome>>
       \/ /\ \E e \in Throws("launch") : Finally(p, CatchResponse(targetUrl[p], e))
          /\ UNCHANGED <<browser, browsers>>
    /\ UNCHANGED <<entry, request, targetUrl, http, scans, normVars, shapeVars, formVars, runVars, themeVars>>

\* const context = await browser.newContext({ignoreHTTPSErrors: true})
NewContext(p) == LibraryStage(p, "newContext", "newPage")

\* const page = await context.newPage(); the two setDefault*Timeout calls
NewPage(p) == LibraryStage(p, "newPage", "goto")

\* await page.goto(targetUrl, {waitUntil: "domcontentloaded"})
Goto(p) == LibraryStage(p, "goto", "settle")

\* await page.waitForTimeout(800)
SettleDelay(p) == LibraryStage(p, "settle", "inject")

\* await page.addScriptTag({path: axePath})
Inject(p) == LibraryStage(p, "inject", "evaluate")

\* const axeResult = await page.evaluate(...); return toScanResponse(...)
Evaluate(p) ==
    /\ pc[p] = "evaluate"
    /\ Use(p)
    /\ \/ \E r \in AxeResults :
             IF IsDef(r)
             THEN Finally(p, toScanResponse(targetUrl[p], Val(r)))
             ELSE Finally(p, CatchResponse(targetUrl[p], NullResultError))
       \/ \E e \in Throws("evaluate") : Finally(p, CatchResponse(targetUrl[p], e))
    /\ UNCHANGED <<entry, request, targetUrl, browser, http, scans, normVars, shapeVars, formVars, runVars, themeVars>>

\* finally: await browser.close().  When close() resolves the completion the
\* try/catch recorded stands; when it rejects, the rejection replaces it.  The
\* code does not determine what a failed close() leaves of the instance: the
\* instance is recorded as "closeFailed".
Close(p) ==
    /\ pc[p] = "close"
    /\ LET b == Val(browser[p])
       IN  \/ /\ browsers' = [browsers EXCEPT ![b].state = "closed",
                                              ![b].closeCalls = @ + 1,
                                              ![b].closers = @ \cup {p}]
              /\ outcome' = [outcome EXCEPT ![p] = Returned(Val(pending[p]))]
           \/ \E e \in Throws("close") :
              /\ browsers' = [browsers EXCEPT ![b].state = "closeFailed",
                                              ![b].closeCalls = @ + 1,
                                              ![b].closers = @ \cup {p}]
              /\ outcome' = [outcome EXCEPT ![p] = Rejected(e)]
    /\ pc' = [pc EXCEPT ![p] = AfterScan(p)]
    /\ pending' = [pending EXCEPT ![p] = Undefined]
    /\ UNCHANGED <<entry, request, targetUrl, browser, http, scans, normVars, shapeVars, formVars, runVars, themeVars>>

----------------------------------------------------------------------------
(* POST /api/scan *)

MissingUrl == <<"Missing url">>

NextResponseJson(body, status) == [status |-> status, body |-> body]

MissingUrlResponse ==
    NextResponseJson([ok |-> FALSE, url |-> Undefined, timestamp |-> Undefined,
                      violations |-> <<>>, error |-> Def(MissingUrl)], 400)

\* catch (e) of POST: `${e?.message ?? "Scan failed"}\n${e?.stack ?? ""}`
HandlerCatchResponse(e) ==
    NextResponseJson([ok |-> FALSE, url |-> Undefined, timestamp |-> Undefined,
                      violations |-> <<>>,
                      error |-> Def(Coalesce(e.message, ScanFailed) \o <<"\n">>
                                    \o Coalesce(e.stack, <<>>))], 500)

\* Mutant: the `!url` test left out.
UrlRejectedTypeOnly(url) == TypeOf(url) # "string"

\* if (!url || typeof url !== "string")
UrlRejected(url) == ~Truthy(url) \/ TypeOf(url) # "string"

\* Mutant: the `!result.ok` branch left out.
StatusAlways200(result) == 200

\* if (!result.ok) 500 else 200
StatusOf(result) == IF ~result.ok THEN 500 ELSE 200

Respond(p, r) ==
    /\ http' = [http EXCEPT ![p] = Append(@, r)]
    /\ pc' = [pc EXCEPT ![p] = "done"]
    /\ entry' = [entry EXCEPT ![p] = "post"]

\* POST(req) up to its first suspension inside scanWithAxe.
Post(p) ==
    /\ pc[p] = "idle"
    /\ \E body \in Bodies :
         /\ request' = [request EXCEPT ![p] = Def(body)]
         /\ CASE body.json = "invalid" ->
                  /\ Respond(p, HandlerCatchResponse(SyntaxError))
                  /\ UNCHANGED <<targetUrl, browser, scans>>
              [] body.json = "null" ->
                  /\ Respond(p, HandlerCatchResponse(DestructureError))
                  /\ UNCHANGED <<targetUrl, browser, scans>>
              [] OTHER ->
                  IF UrlRejected(body.url)
                  THEN /\ Respond(p, MissingUrlResponse)
                       /\ UNCHANGED <<targetUrl, browser, scans>>
                  ELSE /\ Enter(p, body.url.str, "post")
                       /\ scans' = [scans EXCEPT ![p] = @ + 1]
                       /\ UNCHANGED http
    /\ UNCHANGED <<pending, outcome, browsers, normVars, shapeVars, formVars, runVars, themeVars>>

\* POST resumes after `await scanWithAxe(url)`.
Resume(p) ==
    /\ pc[p] = "resume"
    /\ IF outcome[p].kind = "rejected"
       THEN Respond(p, HandlerCatchResponse(Val(outcome[p].error)))
       ELSE LET result == Val(outcome[p].value)
            IN  Respond(p, NextResponseJson(result, StatusOf(result)))
    /\ UNCHANGED <<request, targetUrl, browser, pending, outcome, scans, browsers,
                   normVars, shapeVars, formVars, runVars, themeVars>>

----------------------------------------------------------------------------
(* Specification of the server side: NumCalls concurrent calls *)

IdleNorm == nInput = <<>> /\ nOutput = Undefined /\ nResponse = Undefined /\ nAgain = Undefined
IdleShape == sInput = [violations |-> Undefined] /\ sOutput = Undefined
IdleForm == data = Undefined /\ query = <<>> /\ minImpact = "all"

\* ScanForm's useState initial values (no scan started)
DEFAULT_URL == <<"h","t","t","p","s",":","/","/","e","x","a","m","p","l","e",".","c","o","m">>
IdleRun ==
    /\ formUrl = DEFAULT_URL
    /\ loading = FALSE
    /\ error = Undefined
    /\ inflight = 0
    /\ fetched = Undefined

\* ThemeToggle before its first render
IdleTheme ==
    /\ theme = "dark"
    /\ mounted = FALSE
    /\ datasetTheme = Undefined
    /\ stored = Undefined
    /\ prefersLight = FALSE
    /\ themes = <<>>
    /\ writes = 0

InitScan ==
    /\ pc = [p \in Calls |-> "idle"]
    /\ entry = [p \in Calls |-> "none"]
    /\ request = [p \in Calls |-> Undefined]
    /\ targetUrl = [p \in Calls |-> <<>>]
    /\ browser = [p \in Calls |-> Undefined]
    /\ pending = [p \in Calls |-> Undefined]
    /\ outcome = [p \in Calls |-> NoOutcome]
    /\ http = [p \in Calls |-> <<>>]
    /\ scans = [p \in Calls |-> 0]
    /\ browsers = [b \in Calls |-> NoBrowser]

Init == InitScan /\ IdleNorm /\ IdleShape /\ IdleForm /\ IdleRun /\ IdleTheme

Next ==
    \E p \in Calls :
        \/ Call(p)
        \/ Post(p)
        \/ Launch(p)
        \/ NewContext(p)
        \/ NewPage(p)
        \/ Goto(p)
        \/ SettleDelay(p)
        \/ Inject(p)
        \/ Evaluate(p)
        \/ Close(p)
        \/ Resume(p)

Spec == Init /\ [][Next]_vars

----------------------------------------------------------------------------
(* Claims about scanWithAxe and POST /api/scan, checked under Spec *)

\* The ok/error invariant of a ScanResponse (spec section 3).
OkErrorInvariant(r) ==
    /\ ~r.ok => r.violations = <<>> /\ IsDef(r.error) /\ Val(r.error) # <<>>
    /\ r.ok => ~IsDef(r.error)

\* The calls in which scanWithAxe has been invoked, and those in which it has
\* completed.
Invoked == {p \in Calls : pc[p] \notin {"idle"} /\ (entry[p] = "scan" \/ scans[p] > 0)}
Completed == {p \in Invoked : outcome[p].kind # "none"}
Quiescent == Invoked = Completed

RECURSIVE SumOver(_, _)
SumOver(f, S) ==
    IF S = {} THEN 0
    ELSE LET x == CHOOSE y \in S : TRUE IN f[x] + SumOver(f, S \ {x})

Launches == SumOver([b \in Calls |-> browsers[b].launches], Calls)
Closed == Cardinality({b \in Calls : browsers[b].state = "closed"})

\* C1: every ScanResponse scanWithAxe returns satisfies the ok/error
\* invariant: ok=false implies violations is empty and error is a non-empty
\* string, ok=true implies error is absent.
C1_ReturnedSatisfiesInvariant ==
    \A p \in Calls :
        outcome[p].kind = "returned" => OkErrorInvariant(Val(outcome[p].value))

\* C2: scanWithAxe never raises past its own boundary: whatever stage fails,
\* browser teardown included, the call returns a ScanResponse and is never
\* rejected.
C2_NeverRejects ==
    \A p \in Calls : outcome[p].kind # "rejected"

\* C3 as stated: once all N invoked calls have completed, exactly N browser
\* instances have been launched and exactly N are closed.
C3_ExactlyNLaunchedAndClosed ==
    Quiescent =>
        /\ Launches = Cardinality(Invoked)
        /\ Closed = Cardinality(Invoked)

\* C3 amended: every call launches at most one browser, and none when its
\* launch fails; an instance is launched, operated on and closed by one and
\* the same call; close() is never called more often than the instance was
\* launched; and once the invoked calls have completed, the number of
\* launched instances equals the number of calls whose launch succeeded and
\* close() has been called exactly once on every launched instance.
C3_LaunchedInstancesClosedByOwner ==
    /\ \A b \in Calls :
          /\ browsers[b].launches <= 1
          /\ browsers[b].closeCalls <= browsers[b].launches
          /\ Cardinality(browsers[b].launchers \cup browsers[b].users
                         \cup browsers[b].closers) <= 1
          /\ browsers[b].state = "none" <=> browsers[b].launches = 0
    /\ \A p \in Calls :
          IsDef(browser[p]) => browsers[Val(browser[p])].launchers = {p}
    /\ Launches = Cardinality({p \in Invoked : IsDef(browser[p])})
    /\ Quiescent =>
          \A b \in Calls :
              /\ browsers[b].closeCalls = browsers[b].launches
              /\ browsers[b].closers = browsers[b].launchers
              /\ browsers[b].state # "open"

\* C3 witness: all calls were invoked and have completed, one of them after
\* its launch failed and another after closing the browser it launched.
C3_Witness ==
    /\ Invoked = Calls /\ Quiescent
    /\ \E p \in Calls : ~IsDef(browser[p])
    /\ \E p \in Calls : IsDef(browser[p]) /\ browsers[Val(browser[p])].state = "closed"

\* The request carries a `url` that is missing, not a string, or empty.
UrlMissing(u) == u.type # "string" \/ Len(u.str) = 0

C5_StatusFollowsOk ==
    \A p \in Calls :
        (entry[p] = "post" /\ pc[p] = "done" /\ outcome[p].kind = "returned") =>
            LET r == Val(outcome[p].value)
                h == http[p][1]
            IN  /\ Len(http[p]) = 1
                /\ h.body = r
                /\ h.status = 200 <=> r.ok
                /\ h.status = 500 <=> ~r.ok
                /\ r.error = DnsError.message =>
                      /\ h.status = 500 /\ ~h.body.ok /\ h.body.violations = <<>>
                      /\ Val(h.body.error) # <<>>

\* C5 witness: one request answered 200 with ok:true and no violations,
\* another answered 500 with the unresolvable-host error.
C5_Witness ==
    \E p, q \in Calls :
        /\ entry[p] = "post" /\ pc[p] = "done" /\ outcome[p].kind = "returned"
        /\ http[p][1].status = 200 /\ http[p][1].body.ok
        /\ http[p][1].body.violations = <<>>
        /\ entry[q] = "post" /\ pc[q] = "done" /\ outcome[q].kind = "returned"
        /\ http[q][1].status = 500 /\ http[q][1].body.error = DnsError.message

\* C6: POST answers every request with exactly one response; an exception
\* inside the handler (body parse failure, scanWithAxe rejecting) becomes a
\* 500 with ok=false, violations=[] and the exception's message and trace;
\* every response has status 200, 400 or 500 and a body satisfying the
\* ok/error invariant.
C6_AlwaysWellFormedResponse ==
    \A p \in Calls :
        /\ Len(http[p]) <= 1
        /\ (entry[p] = "post" /\ pc[p] = "done") =>
              /\ Len(http[p]) = 1
              /\ http[p][1].status \in {200, 400, 500}
              /\ OkErrorInvariant(http[p][1].body)
        /\ (entry[p] = "post" /\ pc[p] = "done" /\ outcome[p].kind = "rejected") =>
              LET e == Val(outcome[p].error)
                  b == http[p][1].body
              IN  /\ http[p][1].status = 500
                  /\ ~b.ok /\ b.violations = <<>>
                  /\ IsDef(e.message) => Includes(Val(b.error), Val(e.message))
                  /\ IsDef(e.stack) => Includes(Val(b.error), Val(e.stack))

Stages == <<"launch", "newContext", "newPage", "goto", "settle", "inject", "evaluate">>
StageSet == {Stages[i] : i \in 1..Len(Stages)}
StageIndex(st) == CHOOSE i \in 1..Len(Stages) : Stages[i] = st

\* The call's try block has ended in the catch block.
CaughtIn(p) ==
    \/ IsDef(pending'[p]) /\ ~IsDef(pending[p]) /\ ~Val(pending'[p]).ok
    \/ /\ pc[p] = "launch" /\ outcome'[p].kind = "returned"
       /\ ~Val(outcome'[p].value).ok

\* C10: within one call the stages run in the fixed order, each at most once;
\* after a failed stage no later stage is attempted and the call yields
\* ok=false; the close of a launched browser comes after the last attempted
\* stage and before the call completes.
C10_StagesInOrderThenClose ==
    [][\A p \in Calls :
          /\ (pc[p] \in StageSet /\ pc'[p] \in StageSet /\ pc'[p] # pc[p]) =>
                StageIndex(pc'[p]) = StageIndex(pc[p]) + 1 /\ ~CaughtIn(p)
          /\ (pc[p] \in StageSet /\ pc'[p] # pc[p] /\ pc'[p] \notin StageSet) =>
                \/ pc'[p] = "close" /\ IsDef(browser[p])
                \/ pc[p] = "launch" /\ CaughtIn(p)
          /\ (pc[p] = "close" /\ pc'[p] # "close") =>
                /\ pc'[p] \notin StageSet
                /\ browsers'[Val(browser[p])].closeCalls = 1
                /\ outcome[p].kind = "none" /\ outcome'[p].kind # "none"
                /\ ~Val(pending[p]).ok =>
                      /\ outcome'[p].kind = "returned"
                      /\ ~Val(outcome'[p].value).ok
          /\ (outcome[p].kind = "none" /\ outcome'[p].kind # "none") =>
                IF IsDef(browser[p])
                THEN pc[p] = "close"
                ELSE pc[p] = "launch" /\ ~Val(outcome'[p].value).ok
      ]_vars

----------------------------------------------------------------------------
(* normalizeUrl on its own: SpecNormalize *)

RECURSIVE SeqsUpTo(_, _)
\* All sequences over S of length at most n.
SeqsUpTo(S, n) ==
    IF n = 0 THEN {<<>>}
    ELSE LET shorter == SeqsUpTo(S, n - 1)
         IN  shorter \cup {Append(q, c) : q \in shorter, c \in S}

Pads == SeqsUpTo(WhiteSpace, MaxPad)

SchemeLikes ==
    { <<>>,
      <<"h","t","t","p",":","/","/">>,
      <<"h","t","t","p","s",":","/","/">>,
      <<"H","T","T","P",":","/","/">>,
      <<"h","T","t","P","s",":","/","/">>,
      <<"H","t","t","p","S",":","/","/">>,
      <<"f","t","p",":","/","/">>,
      <<"h","t","t","p",":","/">>,
      <<"h","t","t","p","s",":">>,
      <<"h","t","t","p","s","s",":","/","/">>,
      <<"h","t","t","p","/","/">>,
      <<"x","h","t","t","p",":","/","/">>,
      <<"/","/">> }

Hosts == { <<>>, <<"x">>, <<"a"," ","b">>, <<"x",".","y","/","h","t","t","p",":","/","/">> }

NormInputs == {a \o sch \o h \o b : a \in Pads, sch \in SchemeLikes, h \in Hosts, b \in Pads}

InitNormalize ==
    /\ InitScan /\ IdleShape /\ IdleForm /\ IdleRun /\ IdleTheme
    /\ nInput \in NormInputs
    /\ nOutput = Undefined
    /\ nResponse = Undefined
    /\ nAgain = Undefined

\* normalizeUrl(nInput) is called.
Normalize ==
    /\ ~IsDef(nOutput)
    /\ nOutput' = Def(normalizeUrl(nInput))
    /\ UNCHANGED <<nInput, nResponse, nAgain, scanVars, shapeVars, formVars, runVars, themeVars>>

\* scanWithAxe completes for the target URL nOutput: the success path shapes
\* the engine result, the failure path builds the catch response.
Report ==
    /\ IsDef(nOutput)
    /\ ~IsDef(nResponse)
    /\ \/ \E r \in AxeResults \ {Undefined} :
             nResponse' = Def(toScanResponse(Val(nOutput), Val(r)))
       \/ \E e \in Throws("goto") :
             nResponse' = Def(CatchResponse(Val(nOutput), e))
    /\ UNCHANGED <<nInput, nOutput, nAgain, scanVars, shapeVars, formVars, runVars, themeVars>>

\* The reported url field is submitted again: normalizeUrl(response.url).
Resubmit ==
    /\ IsDef(nResponse)
    /\ ~IsDef(nAgain)
    /\ nAgain' = Def(normalizeUrl(Val(Val(nResponse).url)))
    /\ UNCHANGED <<nInput, nOutput, nResponse, scanVars, shapeVars, formVars, runVars, themeVars>>

NextNormalize == Normalize \/ Report \/ Resubmit

SpecNormalize == InitNormalize /\ [][NextNormalize]_vars

\* s without its leading and trailing whitespace: the part of s between its
\* first and its last non-whitespace character.
Stripped(s) ==
    LET solid == {i \in 1..Len(s) : s[i] \notin WhiteSpace}
    IN  IF solid = {} THEN <<>>
        ELSE SubSeq(s, CHOOSE i \in solid : \A j \in solid : i <= j,
                       CHOOSE i \in solid : \A j \in solid : j <= i)

\* s starts with lit, letter case ignored.
StartsWithNoCase(s, lit) ==
    /\ Len(s) >= Len(lit)
    /\ \A i \in 1..Len(lit) : ToLowerChar(s[i]) = lit[i]

CarriesScheme(s) ==
    \/ StartsWithNoCase(s, <<"h","t","t","p",":","/","/">>)
    \/ StartsWithNoCase(s, <<"h","t","t","p","s",":","/","/">>)

\* C7: normalizeUrl is total; for an input whose trimmed text carries
\* http:// or https:// (any letter case) the result is the trimmed input, for
\* every other input it is https:// followed by the trimmed input.
C7_NormalizeUrl ==
    /\ ~IsDef(nOutput) => ENABLED Normalize
    /\ IsDef(nOutput) =>
          LET t == Stripped(nInput)
          IN  IF CarriesScheme(t)
              THEN Val(nOutput) = t
              ELSE Val(nOutput) = <<"h","t","t","p","s",":","/","/">> \o t

\* C7 witness: an input padded with whitespace and carrying an upper-case
\* scheme has been normalized to its trimmed text.
C7_Witness ==
    /\ IsDef(nOutput)
    /\ nInput # Stripped(nInput)
    /\ CarriesScheme(Stripped(nInput)) /\ ~CarriesScheme(nInput)
    /\ SubSeq(Stripped(nInput), 1, 4) = <<"H","T","T","P">>
    /\ Val(nOutput) = Stripped(nInput)

\* C12: normalizeUrl is idempotent, normalizeUrl(normalizeUrl(s)) =
\* normalizeUrl(s) for every input s; the url field of the response
\* scanWithAxe reports, on the success and on the failure path, is the
\* normalized target URL, and submitting it again yields the same target URL.
C12_NormalizeUrlIdempotent ==
    /\ IsDef(nOutput) => normalizeUrl(Val(nOutput)) = Val(nOutput)
    /\ IsDef(nResponse) => Val(nResponse).url = Def(normalizeUrl(nInput))
    /\ IsDef(nAgain) => Val(nAgain) = normalizeUrl(nInput)

\* C12 witness: a padded input without scheme was normalized, the scan failed,
\* and the url field of the failure response has been submitted again.
C12_Witness ==
    /\ IsDef(nAgain)
    /\ ~Val(nResponse).ok
    /\ nInput # Stripped(nInput)
    /\ Stripped(nInput) # <<>>
    /\ ~CarriesScheme(Stripped(nInput))
    /\ Val(nOutput) # Stripped(nInput)
    /\ Val(nAgain) = Val(nOutput)

----------------------------------------------------------------------------
(* toScanResponse on its own: SpecShape *)

\* A node as the engine reports it; `impact` stands for the members the
\* engine adds beyond html, target and failureSummary.
RawNodes ==
    { [html |-> Def(<<"<img>">>), target |-> Def(<< <<"img">> >>),
       failureSummary |-> Undefined, impact |-> Def("critical")],
      [html |-> Undefined, target |-> Undefined,
       failureSummary |-> Def(<<"Fix any of the following">>), impact |-> Undefined] }

RawViolations ==
    { [id |-> i, impact |-> im, description |-> <<"Ensures <img> elements have alternate text">>,
       help |-> <<"Images must have alternate text">>,
       helpUrl |-> IF IsDef(im) THEN Def(<<"https://dequeuniversity.com/rules/axe/image-alt">>)
                   ELSE Undefined,
       tags |-> t, nodes |-> n] :
      i \in { <<"i","m","a","g","e","-","a","l","t">>, <<"l","a","b","e","l">> },
      im \in { Undefined, Def("serious") },
      t \in { Undefined, Def(<<>>), Def(<< <<"w","c","a","g","2","a">>, <<"c","a","t">> >>) },
      n \in { Undefined, Def(<<>>) } \cup { Def(<<x>>) : x \in RawNodes } }

RECURSIVE ListsUpTo(_, _)
ListsUpTo(S, n) ==
    IF n = 0 THEN {<<>>}
    ELSE LET shorter == ListsUpTo(S, n - 1)
         IN  shorter \cup {<<x>> \o l : x \in S, l \in {m \in shorter : Len(m) = n - 1}}

RawResults ==
    { [violations |-> Undefined] }
    \cup { [violations |-> Def(l)] : l \in ListsUpTo(RawViolations, MaxViolations) }

ShapeUrl == <<"h","t","t","p","s",":","/","/","x">>

InitShape ==
    /\ InitScan /\ IdleNorm /\ IdleForm /\ IdleRun /\ IdleTheme
    /\ sInput \in RawResults
    /\ sOutput = Undefined

\* toScanResponse(url, sInput) is called.
Shape ==
    /\ ~IsDef(sOutput)
    /\ sOutput' = Def(toScanResponse(ShapeUrl, sInput))
    /\ UNCHANGED <<sInput, scanVars, normVars, formVars, runVars, themeVars>>

SpecShape == InitShape /\ [][Shape]_vars

RawList == Coalesce(sInput.violations, <<>>)

\* The parts of the claim both versions share: the call is defined for every
\* raw result, the lists have equal length, the i-th output comes from the
\* i-th input with tags defaulted to the empty list, and shaping the output
\* again changes nothing.
ShapedInOrder ==
    /\ ~IsDef(sOutput) => ENABLED Shape
    /\ IsDef(sOutput) =>
          LET out == Val(sOutput).violations
          IN  /\ Val(sOutput).ok /\ ~IsDef(Val(sOutput).error)
              /\ Len(out) = Len(RawList)
              /\ \A i \in 1..Len(out) :
                    /\ out[i].id = RawList[i].id
                    /\ out[i].impact = RawList[i].impact
                    /\ out[i].description = RawList[i].description
                    /\ out[i].help = RawList[i].help
                    /\ out[i].helpUrl = RawList[i].helpUrl
                    /\ out[i].tags = IF IsDef(RawList[i].tags) THEN RawList[i].tags
                                     ELSE Def(<<>>)
              /\ toScanResponse(ShapeUrl, [violations |-> Def(out)]).violations = out

\* C8 as stated: besides tags, every field -- nodes included -- is copied
\* unchanged.
C8_OnlyTagsDefaulted ==
    /\ ShapedInOrder
    /\ IsDef(sOutput) =>
          \A i \in 1..Len(RawList) :
              Val(sOutput).violations[i].nodes = RawList[i].nodes

\* C8 amended: the shaper is total and order-preserving, the output has the
\* length of the input, element i is derived from input element i only, tags
\* and nodes are empty lists wherever the input has none, each node keeps its
\* html, target and failureSummary and nothing else, every other field is
\* copied unchanged, and shaping the output again yields the same violations.
C8_TagsAndNodesDefaulted ==
    /\ ShapedInOrder
    /\ IsDef(sOutput) =>
          \A i \in 1..Len(RawList) :
              LET nodesIn == IF IsDef(RawList[i].nodes) THEN Val(RawList[i].nodes) ELSE <<>>
                  nodesOut == Val(Val(sOutput).violations[i].nodes)
              IN  /\ IsDef(Val(sOutput).violations[i].nodes)
                  /\ Len(nodesOut) = Len(nodesIn)
                  /\ \A k \in 1..Len(nodesOut) :
                        /\ DOMAIN nodesOut[k] = {"html", "target", "failureSummary"}
                        /\ nodesOut[k].html = nodesIn[k].html
                        /\ nodesOut[k].target = nodesIn[k].target
                        /\ nodesOut[k].failureSummary = nodesIn[k].failureSummary

\* C8 witness: a list of MaxViolations raw violations with a duplicated id,
\* one without tags and nodes, has been shaped.
C8_Witness ==
    /\ IsDef(sOutput)
    /\ Len(RawList) >= 2
    /\ RawList[1].id = RawList[2].id /\ RawList[1] # RawList[2]
    /\ ~IsDef(RawList[1].tags) /\ ~IsDef(RawList[1].nodes) /\ ~IsDef(RawList[1].impact)
    /\ IsDef(RawList[2].nodes) /\ Val(RawList[2].nodes) # <<>>
    /\ Val(sOutput).violations[1].tags = Def(<<>>)
    /\ Val(sOutput).violations[1].nodes = Def(<<>>)

----------------------------------------------------------------------------
(* ScanForm: the violation filter, SpecForm *)

MinImpacts == {"all", "moderate", "serious", "critical"}

\* IMPACT_RANK[name]: undefined for a name the table does not hold.
IMPACT_RANK(name) ==
    CASE name = "minor" -> Def(1)
      [] name = "moderate" -> Def(2)
      [] name = "serious" -> Def(3)
      [] name = "critical" -> Def(4)
      [] OTHER -> Undefined

\* Mutant: `>` in place of `>=`.
passesImpactAbove(impact) ==
    IF minImpact = "all" THEN TRUE
    ELSE Coalesce(IMPACT_RANK(Coalesce(impact, "minor")), 0) > Val(IMPACT_RANK(minImpact))

passesImpact(impact) ==
    IF minImpact = "all" THEN TRUE
    ELSE LET rank == Coalesce(IMPACT_RANK(Coalesce(impact, "minor")), 0)
         IN  rank >= Val(IMPACT_RANK(minImpact))

RECURSIVE Join(_, _)
\* Array.prototype.join
Join(parts, sep) ==
    IF parts = <<>> THEN <<>>
    ELSE IF Len(parts) = 1 THEN parts[1]
    ELSE parts[1] \o sep \o Join(Tail(parts), sep)

matchesQuery(v, q) ==
    \/ q = <<>>
    \/ Includes(ToLowerCase(v.id), q)
    \/ Includes(ToLowerCase(v.help), q)
    \/ Includes(ToLowerCase(v.description), q)
    \/ Includes(ToLowerCase(Join(Val(v.tags), <<",">>)), q)

filteredViolations ==
    IF ~IsDef(data) THEN <<>>
    ELSE LET q == ToLowerCase(Trim(query))
         IN  SelectSeq(Val(data).violations,
                       LAMBDA v : passesImpact(v.impact) /\ matchesQuery(v, q))

\* Texts of the violations the form is shown (id, help, description, tags).
FormTexts ==
    { [id |-> <<"a","b">>, help |-> <<"A"," ","b">>, description |-> <<"B","a">>,
       tags |-> << <<"a">>, <<"b","b">> >>],
      [id |-> <<"b">>, help |-> <<"B">>, description |-> <<>>, tags |-> <<>>] }

FormImpacts == {Undefined, Def("minor"), Def("moderate"), Def("serious"), Def("critical")}

FormViolations ==
    { [id |-> t.id, impact |-> im, description |-> t.description, help |-> t.help,
       helpUrl |-> Undefined, tags |-> Def(t.tags), nodes |-> Def(<<>>)] :
      t \in FormTexts, im \in FormImpacts }

FormResponses ==
    { [ok |-> TRUE, url |-> Def(ShapeUrl), timestamp |-> Def(NowISO),
       violations |-> l, error |-> Undefined] :
      l \in ListsUpTo(FormViolations, MaxShown) }

\* Characters typed into the search box.
QueryChars == {"a", "B", ",", " "}

InitForm ==
    /\ InitScan /\ IdleNorm /\ IdleShape /\ IdleRun /\ IdleTheme
    /\ data = Undefined
    /\ query = <<>>
    /\ minImpact = "all"

\* setData(json): a fetched response is shown.
SetData ==
    /\ ~IsDef(data)
    /\ \E r \in FormResponses : data' = Def(r)
    /\ UNCHANGED <<query, minImpact, scanVars, normVars, shapeVars, runVars, themeVars>>

\* setData(null): runScan clears the shown response.
ClearData ==
    /\ IsDef(data)
    /\ data' = Undefined
    /\ UNCHANGED <<query, minImpact, scanVars, normVars, shapeVars, runVars, themeVars>>

\* onChange of the search box, setQuery(e.target.value): the text after one
\* more character was typed or the last one deleted.
SetQuery ==
    /\ IsDef(data)
    /\ \/ \E c \in QueryChars :
             /\ Len(query) < MaxQuery
             /\ query' = Append(query, c)
       \/ /\ query # <<>>
          /\ query' = SubSeq(query, 1, Len(query) - 1)
    /\ UNCHANGED <<data, minImpact, scanVars, normVars, shapeVars, runVars, themeVars>>

\* onChange of the severity select, setMinImpact(e.target.value)
SetMinImpact ==
    /\ IsDef(data)
    /\ \E m \in MinImpacts : minImpact' = m
    /\ UNCHANGED <<data, query, scanVars, normVars, shapeVars, runVars, themeVars>>

\* The Reset button: setQuery(""); setMinImpact("all")
ResetFilters ==
    /\ IsDef(data)
    /\ query' = <<>>
    /\ minImpact' = "all"
    /\ UNCHANGED <<data, scanVars, normVars, shapeVars, runVars, themeVars>>

NextForm == SetData \/ ClearData \/ SetQuery \/ SetMinImpact \/ ResetFilters

SpecForm == InitForm /\ [][NextForm]_vars

\* The severity scale of the glossary, lowest first.
Severities == <<"minor", "moderate", "serious", "critical">>
SeverityPos(name) == CHOOSE i \in 1..Len(Severities) : Severities[i] = name

\* impact is at or above the selected threshold.
AtOrAbove(impact, threshold) ==
    \/ threshold = "all"
    \/ /\ IsDef(impact)
       /\ SeverityPos(Val(impact)) >= SeverityPos(threshold)

\* text holds q as a substring, letter case ignored.
HoldsNoCase(text, q) ==
    \E start \in 1..(Len(text) + 1) :
        \A k \in 1..Len(q) :
            /\ start + k - 1 <= Len(text)
            /\ ToLowerChar(text[start + k - 1]) = ToLowerChar(q[k])

\* The tags as one text, separated by commas.
RECURSIVE TagsText(_)
TagsText(tags) ==
    IF tags = <<>> THEN <<>>
    ELSE IF Len(tags) = 1 THEN Head(tags)
    ELSE Head(tags) \o <<",">> \o TagsText(Tail(tags))

Admitted(v) ==
    LET q == Stripped(query)
    IN  /\ AtOrAbove(v.impact, minImpact)
        /\ \/ HoldsNoCase(v.id, q)
           \/ HoldsNoCase(v.help, q)
           \/ HoldsNoCase(v.description, q)
           \/ HoldsNoCase(TagsText(Val(v.tags)), q)

RECURSIVE Keep(_)
\* The admitted elements of a list, in their order.
Keep(l) ==
    IF l = <<>> THEN <<>>
    ELSE (IF Admitted(Head(l)) THEN <<Head(l)>> ELSE <<>>) \o Keep(Tail(l))

----------------------------------------------------------------------------
(* ScanForm: runScan and the Run button, SpecRunScan *)

\* Texts of the URL input.
UrlTexts == {DEFAULT_URL, <<>>, <<" ">>}

\* Mutant: the button disabled for a blank URL only.
RunDisabledBlankOnly == Trim(formUrl) = <<>>

\* disabled={loading || !url.trim()}
RunDisabled == loading \/ Trim(formUrl) = <<>>

FormScanFailed == <<"Scan failed">>
SomethingWentWrong == <<"Something went wrong">>

\* fetch rejects (no connection).
FetchError == [message |-> Def(<<"Failed to fetch">>), stack |-> Undefined]
\* json.ok / json.error read from a null body.
NullJsonError ==
    [message |-> Def(<<"Cannot read properties of null (reading 'ok')">>), stack |-> Undefined]

\* res.ok
ResOk(status) == status \in 200..299

\* The fetch delivered the HTTP response r with a JSON object as body.
Delivered(r) == [status |-> Def(r.status), json |-> "value", body |-> Def(r.body)]

\* The responses with a JSON object as body: payloads the scanner builds
\* (shown lists of at most one violation; failures with and without message),
\* under either status, and the handler's own 400 and 500 responses.
JsonResponses ==
    LET shown == {r \in FormResponses :
                     /\ Len(r.violations) <= 1
                     /\ \A i \in 1..Len(r.violations) : r.violations[i].impact = Def("serious")}
        failed == {CatchResponse(ShapeUrl, e) : e \in Throws("goto")}
                  \cup {[ok |-> FALSE, url |-> Def(ShapeUrl), timestamp |-> Def(NowISO),
                         violations |-> <<>>, error |-> Undefined]}
    IN  {NextResponseJson(b, st) : b \in shown \cup failed, st \in {200, 500}}
        \cup {MissingUrlResponse, HandlerCatchResponse(SyntaxError)}

\* What `await fetch(...)` followed by `await res.json()` can deliver: a
\* rejected fetch, a body that is no JSON, the JSON value null, a JSON object.
FetchOutcomes ==
    {[status |-> Undefined, json |-> "none", body |-> Undefined]}
    \cup {[status |-> Def(st), json |-> j, body |-> Undefined] :
             st \in {200, 500}, j \in {"invalid", "null"}}
    \cup {Delivered(r) : r \in JsonResponses}

\* The value thrown inside the try block for a fetch outcome, if any.
ThrownInTry(o) ==
    IF ~IsDef(o.status) THEN Def(FetchError)
    ELSE IF o.json = "invalid" THEN Def(SyntaxError)
    ELSE IF o.json = "null" THEN Def(NullJsonError)
    ELSE IF ~ResOk(Val(o.status)) \/ Val(o.body).ok = FALSE
         THEN Def([message |-> Def(Coalesce(Val(o.body).error, FormScanFailed)),
                   stack |-> Undefined])
         ELSE Undefined

InitRunScan == InitScan /\ IdleNorm /\ IdleShape /\ IdleTheme /\ IdleForm /\ IdleRun

\* onChange of the URL input, setUrl(e.target.value)
SetUrl ==
    /\ \E t \in UrlTexts : t # formUrl /\ formUrl' = t
    /\ UNCHANGED <<loading, error, inflight, fetched, formVars,
                   scanVars, normVars, shapeVars, themeVars>>

\* A click on the Run button: runScan up to its first await.
RunScan ==
    /\ ~RunDisabled
    /\ inflight < MaxFlights
    /\ loading' = TRUE
    /\ error' = Undefined
    /\ data' = Undefined
    /\ inflight' = inflight + 1
    /\ fetched' = Undefined
    /\ UNCHANGED <<formUrl, query, minImpact, scanVars, normVars, shapeVars, themeVars>>

\* runScan after its awaits: the rest of the try block, catch and finally.
Settle(o) ==
    /\ inflight > 0
    /\ LET thrown == ThrownInTry(o)
       IN  IF IsDef(thrown)
           THEN /\ error' = Def(Coalesce(Val(thrown).message, SomethingWentWrong))
                /\ UNCHANGED data
           ELSE /\ data' = o.body
                /\ UNCHANGED error
    /\ loading' = FALSE
    /\ inflight' = inflight - 1
    /\ fetched' = Def(o)
    /\ UNCHANGED <<formUrl, query, minImpact, scanVars, normVars, shapeVars, themeVars>>

Settles == \E o \in FetchOutcomes : Settle(o)

NextRunScan == RunScan \/ Settles \/ SetUrl \/ SetQuery \/ SetMinImpact \/ ResetFilters

\* The pending fetch settles: it resolves or rejects.
SpecRunScan == InitRunScan /\ [][NextRunScan]_vars /\ WF_vars(Settles)

\* Exactly one of data and error is non-null.
ExactlyOneSet == IsDef(data) # IsDef(error)

\* The fetch outcome is a response with HTTP ok status whose ok is not false.
OkDelivery(o) ==
    /\ IsDef(o.status) /\ Val(o.status) >= 200 /\ Val(o.status) < 300
    /\ IsDef(o.body) /\ Val(o.body).ok # FALSE

\* C11: starting a scan sets loading and clears error and data; while loading
\* the Run button is disabled and at most one request is in flight; every
\* scan ends, whatever the fetch delivers, with loading false and exactly one
\* of data and error non-null, data only for a response with HTTP ok status
\* and ok not false; runScan changes neither the query nor the impact filter.
C11_RunScanLifecycle ==
    /\ [](loading => ~IsDef(error) /\ ~IsDef(data) /\ RunDisabled)
    /\ [](inflight <= 1 /\ (loading <=> inflight = 1))
    /\ [](IsDef(fetched) => ~loading /\ ExactlyOneSet
                            /\ (IsDef(data) <=> OkDelivery(Val(fetched))))
    /\ [][inflight' > inflight => loading' /\ ~IsDef(error') /\ ~IsDef(data')]_vars
    /\ [][inflight' < inflight => ~loading' /\ IsDef(fetched')]_vars
    /\ [][inflight' # inflight => query' = query /\ minImpact' = minImpact]_vars
    /\ (loading ~> ~loading)

\* C11 witness: after a first scan whose result was filtered, a second scan
\* ended on a 500 response carrying an empty error text; the error is set to
\* the empty text, data is cleared and the filter settings are still there.
C11_Witness ==
    /\ IsDef(fetched) /\ Val(fetched).status = Def(500)
    /\ ~loading /\ inflight = 0
    /\ error = Def(<<>>) /\ ~IsDef(data)
    /\ query # <<>> /\ minImpact = "serious"

----------------------------------------------------------------------------
(* ThemeToggle: SpecTheme *)

\* What localStorage holds under "theme" when the component mounts: nothing,
\* the empty text, a theme, or a text that is no theme.
StoredThemes ==
    {Undefined, Def(""), Def("dark"), Def("light"), Def("blue"), Def("system"), Def("DARK")}

\* if (stored): null and the empty string are falsy.
StoredTruthy(s) == IsDef(s) /\ Val(s) # ""

\* Mutant: the test made against "light".
NextThemeFromLight(t) == IF t = "light" THEN "dark" ELSE "light"

\* theme === "dark" ? "light" : "dark"
NextTheme(t) == IF t = "dark" THEN "light" ELSE "dark"

InitTheme ==
    /\ InitScan /\ IdleNorm /\ IdleShape /\ IdleForm /\ IdleRun
    /\ theme = "dark"
    /\ mounted = FALSE
    /\ datasetTheme = Undefined
    /\ stored \in StoredThemes
    /\ prefersLight \in BOOLEAN
    /\ themes = <<>>
    /\ writes = 0

\* The mount effect.
Mount ==
    /\ ~mounted
    /\ IF StoredTruthy(stored)
       THEN /\ theme' = Val(stored)
            /\ datasetTheme' = Def(Val(stored))
       ELSE LET initial == IF prefersLight THEN "light" ELSE "dark"
            IN  /\ theme' = initial
                /\ datasetTheme' = Def(initial)
    /\ mounted' = TRUE
    /\ themes' = <<theme'>>
    /\ UNCHANGED <<stored, prefersLight, writes,
                   scanVars, normVars, shapeVars, formVars, runVars>>

\* A click on the toggle button, rendered once mounted.
toggleTheme ==
    /\ mounted
    /\ Len(themes) <= MaxToggles
    /\ LET next == NextTheme(theme)
       IN  /\ theme' = next
           /\ stored' = Def(next)
           /\ datasetTheme' = Def(next)
           /\ themes' = Append(themes, next)
    /\ writes' = writes + 1
    /\ UNCHANGED <<mounted, prefersLight,
                   scanVars, normVars, shapeVars, formVars, runVars>>

\* The system colour scheme changes.
PreferenceChange ==
    /\ prefersLight' = ~prefersLight
    /\ UNCHANGED <<theme, mounted, datasetTheme, stored, themes, writes,
                   scanVars, normVars, shapeVars, formVars, runVars>>

NextTheme_ == Mount \/ toggleTheme \/ PreferenceChange

SpecTheme == InitTheme /\ [][NextTheme_]_vars

\* Number of toggles so far.
Toggles == IF themes = <<>> THEN 0 ELSE Len(themes) - 1

\* C13: once mounted, the theme state equals dataset.theme; after at least
\* one toggle the stored "theme" item equals both; each toggle turns dark into
\* light and every other value into dark, so two toggles from dark or light
\* restore the theme; mounting with no stored theme takes light or dark from
\* the system preference and does not write localStorage.
C13_ThemeInSync ==
    /\ [](mounted => datasetTheme = Def(theme))
    /\ [](Toggles >= 1 => stored = Def(theme) /\ datasetTheme = Def(theme))
    /\ [](\A i \in 1..Len(themes) :
             /\ i + 1 <= Len(themes) =>
                   themes[i + 1] = (IF themes[i] = "dark" THEN "light" ELSE "dark")
             /\ (i + 2 <= Len(themes) /\ themes[i] \in {"dark", "light"}) =>
                   themes[i + 2] = themes[i])
    /\ [](mounted => themes[Len(themes)] = theme /\ writes = Toggles)
    /\ [][(~mounted /\ mounted' /\ ~IsDef(stored)) =>
             /\ theme' = (IF prefersLight THEN "light" ELSE "dark")
             /\ ~IsDef(stored')
             /\ writes' = 0]_vars

\* C13 witness: mounted with a stored text that is no theme, then toggled
\* twice: blue, dark, light, all three places holding light.
C13_Witness ==
    /\ mounted
    /\ themes = <<"blue", "dark", "light">>
    /\ theme = "light" /\ stored = Def("light") /\ datasetTheme = Def("light")
    /\ writes = 2

====
